---- MODULE Spec2Model ----
(***************************************************************************)
(* A model of validate_tool_safety.py, the PreToolUse hook that decides    *)
(* whether a tool call may run unattended.  One run of main() reads one    *)
(* tool invocation, applies the tool-class shortcut and the code-based     *)
(* rule checks, falls back to the Ollama classifier, and, for a Bash       *)
(* command found safe, asks the oracle for a whitelist pattern and merges  *)
(* it into settings.local.json.                                            *)
(*                                                                         *)
(* Text is modelled as sequences of one-character strings, so that the     *)
(* substring scans and the lower-casing of the rule engine are computed    *)
(* as the code computes them.                                              *)
(***************************************************************************)
EXTENDS Integers, Sequences, FiniteSets, TLC

(***************************************************************************)
(* Bounds of the model.                                                    *)
(***************************************************************************)
\* number of hook processes (runs of main) started in one behaviour
MaxRuns == 2

\* the longest command given to the structural extractor, in pieces
MaxParts == 6

(***************************************************************************)
(* Text helpers: str.lower() and the substring test `m in s`.              *)
(***************************************************************************)
UpperChars == <<"A","B","C","D","E","F","G","H","I","J","K","L","M",
                "N","O","P","Q","R","S","T","U","V","W","X","Y","Z">>

LowerChars == <<"a","b","c","d","e","f","g","h","i","j","k","l","m",
                "n","o","p","q","r","s","t","u","v","w","x","y","z">>

\* one character of str.lower()
LowerChar(c) ==
  IF \E i \in DOMAIN UpperChars : UpperChars[i] = c
  THEN LowerChars[CHOOSE i \in DOMAIN UpperChars : UpperChars[i] = c]
  ELSE c

\* str.lower()
Lower(s) == [i \in DOMAIN s |-> LowerChar(s[i])]

\* Python's `m in s` for two strings
Contains(s, m) ==
  \E i \in 0..(Len(s) - Len(m)) : SubSeq(s, i + 1, i + Len(m)) = m

(***************************************************************************)
(* The rule tables (process-wide constants of the hook).                   *)
(***************************************************************************)
ALWAYS_SAFE_TOOLS == {"Read", "Glob", "Grep", "WebSearch", "WebFetch"}

ALWAYS_ASK_TOOLS == {"Task", "Skill"}

MULTI_WORD_TOOLS ==
  {
    <<"g","o">>,   \* 'go'
    <<"n","p","m">>,   \* 'npm'
    <<"y","a","r","n">>,   \* 'yarn'
    <<"c","a","r","g","o">>,   \* 'cargo'
    <<"m","a","k","e">>,   \* 'make'
    <<"g","i","t">>,   \* 'git'
    <<"d","o","c","k","e","r">>,   \* 'docker'
    <<"k","u","b","e","c","t","l">>,   \* 'kubectl'
    <<"p","y","t","h","o","n">>,   \* 'python'
    <<"p","i","p">>,   \* 'pip'
    <<"b","u","n">>   \* 'bun'
  }

UNSAFE_COMMANDS ==
  {
    <<"r","m"," ">>,   \* 'rm '
    <<"r","m","\t">>,   \* 'rm\t'
    <<"r","m","d","i","r">>,   \* 'rmdir'
    <<"u","n","l","i","n","k">>,   \* 'unlink'
    <<"g","i","t"," ","c","l","e","a","n">>,   \* 'git clean'
    <<"g","i","t"," ","r","e","s","e","t"," ","-","-","h","a","r","d">>,   \* 'git reset --hard'
    <<"g","i","t"," ","r","e","s","e","t"," ","-","-","m","i","x","e","d">>,   \* 'git reset --mixed'
    <<"-","-","f","o","r","c","e">>,   \* '--force'
    <<" ","-","f"," ">>,   \* ' -f '
    <<" ","-","r","f">>,   \* ' -rf'
    <<"-","r","f"," ">>,   \* '-rf '
    <<".","e","n","v">>,   \* '.env'
    <<".","s","s","h">>,   \* '.ssh'
    <<".","a","w","s">>,   \* '.aws'
    <<".","g","n","u","p","g">>,   \* '.gnupg'
    <<"c","r","e","d","e","n","t","i","a","l","s">>,   \* 'credentials'
    <<"s","e","c","r","e","t","s">>,   \* 'secrets'
    <<"/","e","t","c","/","p","a","s","s","w","d">>,   \* '/etc/passwd'
    <<"/","e","t","c","/","s","h","a","d","o","w">>,   \* '/etc/shadow'
    <<"s","k","-">>,   \* 'sk-'
    <<"a","p","i","_","k","e","y","=">>,   \* 'api_key='
    <<"a","p","i","k","e","y","=">>,   \* 'apikey='
    <<"A","P","I","_","K","E","Y","=">>,   \* 'API_KEY='
    <<"t","o","k","e","n","=">>,   \* 'token='
    <<"T","O","K","E","N","=">>,   \* 'TOKEN='
    <<"s","e","c","r","e","t","=">>,   \* 'secret='
    <<"S","E","C","R","E","T","=">>,   \* 'SECRET='
    <<"p","a","s","s","w","o","r","d","=">>,   \* 'password='
    <<"P","A","S","S","W","O","R","D","=">>,   \* 'PASSWORD='
    <<"p","a","s","s","w","d","=">>,   \* 'passwd='
    <<"B","e","a","r","e","r"," ">>,   \* 'Bearer '
    <<"B","a","s","i","c"," ">>,   \* 'Basic '
    <<"s","u","d","o"," ">>,   \* 'sudo '
    <<"s","u","d","o","\t">>,   \* 'sudo\t'
    <<"d","o","a","s"," ">>,   \* 'doas '
    <<"c","h","m","o","d"," ">>,   \* 'chmod '
    <<"c","h","o","w","n"," ">>,   \* 'chown '
    <<"c","h","g","r","p"," ">>,   \* 'chgrp '
    <<"s","y","s","t","e","m","c","t","l">>,   \* 'systemctl'
    <<"s","e","r","v","i","c","e"," ">>,   \* 'service '
    <<"p","k","i","l","l"," ">>,   \* 'pkill '
    <<"k","i","l","l"," ">>,   \* 'kill '
    <<"k","i","l","l","a","l","l"," ">>,   \* 'killall '
    <<"e","v","a","l"," ">>,   \* 'eval '
    <<"e","x","e","c"," ">>,   \* 'exec '
    <<"d","o","c","k","e","r"," ","r","u","n">>,   \* 'docker run'
    <<"d","o","c","k","e","r"," ","e","x","e","c">>,   \* 'docker exec'
    <<"k","u","b","e","c","t","l"," ","r","u","n">>,   \* 'kubectl run'
    <<"k","u","b","e","c","t","l"," ","e","x","e","c">>,   \* 'kubectl exec'
    <<"c","u","r","l"," ">>,   \* 'curl '
    <<"w","g","e","t"," ">>,   \* 'wget '
    <<"n","c"," ">>,   \* 'nc '
    <<"n","e","t","c","a","t">>,   \* 'netcat'
    <<"b","r","e","w"," ","i","n","s","t","a","l","l">>,   \* 'brew install'
    <<"b","r","e","w"," ","u","p","g","r","a","d","e">>,   \* 'brew upgrade'
    <<"p","i","p"," ","i","n","s","t","a","l","l">>,   \* 'pip install'
    <<"n","p","m"," ","i","n","s","t","a","l","l">>,   \* 'npm install'
    <<"y","a","r","n"," ","a","d","d">>,   \* 'yarn add'
    <<"p","n","p","m"," ","i","n","s","t","a","l","l">>,   \* 'pnpm install'
    <<"b","u","n"," ","i","n","s","t","a","l","l">>   \* 'bun install'
  }

NEVER_WHITELIST_COMMANDS ==
  {
    <<"g","i","t"," ","p","u","s","h">>,   \* 'git push'
    <<"d","o","c","k","e","r"," ","r","u","n">>,   \* 'docker run'
    <<"d","o","c","k","e","r"," ","e","x","e","c">>,   \* 'docker exec'
    <<"k","u","b","e","c","t","l"," ","e","x","e","c">>,   \* 'kubectl exec'
    <<"k","u","b","e","c","t","l"," ","r","u","n">>,   \* 'kubectl run'
    <<"k","u","b","e","c","t","l"," ","d","e","l","e","t","e">>,   \* 'kubectl delete'
    <<"k","u","b","e","c","t","l"," ","a","p","p","l","y">>   \* 'kubectl apply'
  }

SAFE_COMMAND_BASES ==
  {
    <<"-","-","v","e","r","s","i","o","n">>,   \* '--version'
    <<"-","v">>,   \* '-v'
    <<"-","V">>,   \* '-V'
    <<"v","e","r","s","i","o","n">>,   \* 'version'
    <<"g","i","t"," ","s","t","a","t","u","s">>,   \* 'git status'
    <<"g","i","t"," ","l","o","g">>,   \* 'git log'
    <<"g","i","t"," ","d","i","f","f">>,   \* 'git diff'
    <<"g","i","t"," ","b","r","a","n","c","h">>,   \* 'git branch'
    <<"g","i","t"," ","s","h","o","w">>,   \* 'git show'
    <<"g","i","t"," ","r","e","m","o","t","e">>,   \* 'git remote'
    <<"g","o"," ","b","u","i","l","d">>,   \* 'go build'
    <<"g","o"," ","t","e","s","t">>,   \* 'go test'
    <<"g","o"," ","r","u","n">>,   \* 'go run'
    <<"g","o"," ","m","o","d">>,   \* 'go mod'
    <<"g","o"," ","v","e","r","s","i","o","n">>,   \* 'go version'
    <<"c","a","r","g","o"," ","b","u","i","l","d">>,   \* 'cargo build'
    <<"c","a","r","g","o"," ","t","e","s","t">>,   \* 'cargo test'
    <<"c","a","r","g","o"," ","r","u","n">>,   \* 'cargo run'
    <<"c","a","r","g","o"," ","c","h","e","c","k">>,   \* 'cargo check'
    <<"n","p","m"," ","t","e","s","t">>,   \* 'npm test'
    <<"n","p","m"," ","r","u","n">>,   \* 'npm run'
    <<"n","p","m"," ","s","t","a","r","t">>,   \* 'npm start'
    <<"m","a","k","e">>,   \* 'make'
    <<"c","m","a","k","e">>,   \* 'cmake'
    <<"p","y","t","e","s","t">>,   \* 'pytest'
    <<"p","y","t","h","o","n"," ","-","m"," ","p","y","t","e","s","t">>,   \* 'python -m pytest'
    <<"l","s">>,   \* 'ls'
    <<"c","a","t"," ">>,   \* 'cat '
    <<"h","e","a","d"," ">>,   \* 'head '
    <<"t","a","i","l"," ">>,   \* 'tail '
    <<"l","e","s","s"," ">>,   \* 'less '
    <<"m","o","r","e"," ">>,   \* 'more '
    <<"f","i","n","d"," ">>,   \* 'find '
    <<"g","r","e","p"," ">>,   \* 'grep '
    <<"w","c"," ">>,   \* 'wc '
    <<"d","u"," ">>,   \* 'du '
    <<"d","f"," ">>   \* 'df '
  }

(***************************************************************************)
(* The rule engine.                                                        *)
(***************************************************************************)
check_unsafe_command(command) ==
  LET cmd_lower == Lower(command)
  IN  \E pattern \in UNSAFE_COMMANDS : Contains(cmd_lower, pattern)

check_never_whitelist(command) ==
  LET cmd_lower == Lower(command)
  IN  \E pattern \in NEVER_WHITELIST_COMMANDS : Contains(cmd_lower, pattern)

check_safe_command(command) ==
  LET cmd_lower == Lower(command)
  IN  \E pattern \in SAFE_COMMAND_BASES : Contains(cmd_lower, pattern)

(***************************************************************************)
(* The Bash commands the caller may submit.                                *)
(***************************************************************************)
CmdCatEnv == <<"c","a","t"," ",".","e","n","v">>   \* 'cat .env'

CmdCatEnvUpper == <<"C","A","T"," ",".","E","N","V">>   \* 'CAT .ENV'

CmdPushForce == <<"g","i","t"," ","p","u","s","h"," ","-","-","f","o","r","c","e"," ","o","r","i","g","i","n"," ","m","a","i","n">>   \* 'git push --force origin main'

CmdPush == <<"g","i","t"," ","p","u","s","h"," ","o","r","i","g","i","n"," ","m","a","i","n">>   \* 'git push origin main'

CmdPushVerbose == <<"g","i","t"," ","p","u","s","h"," ","-","v">>   \* 'git push -v'

CmdGoTest == <<"g","o"," ","t","e","s","t"," ",".","/",".",".",".">>   \* 'go test ./...'

CmdGitStatus == <<"g","i","t"," ","s","t","a","t","u","s">>   \* 'git status'

CmdNpmInstall == <<"n","p","m"," ","i","n","s","t","a","l","l">>   \* 'npm install'

CmdNpmInstallLodash == <<"n","p","m"," ","i","n","s","t","a","l","l"," ","l","o","d","a","s","h">>   \* 'npm install lodash'

CmdPipInstall == <<"p","i","p"," ","i","n","s","t","a","l","l"," ","r","e","q","u","e","s","t","s">>   \* 'pip install requests'

CmdEchoBearer == <<"e","c","h","o"," ","B","e","a","r","e","r"," ","x">>   \* 'echo Bearer x'

CmdMkdir == <<"m","k","d","i","r"," ","o","u","t">>   \* 'mkdir out'

CmdEmpty == <<>>   \* ''

Commands ==
  {CmdCatEnv, CmdCatEnvUpper, CmdPushForce, CmdPush, CmdPushVerbose, CmdGoTest,
   CmdGitStatus, CmdNpmInstall, CmdNpmInstallLodash, CmdPipInstall,
   CmdEchoBearer, CmdMkdir, CmdEmpty}

(***************************************************************************)
(* Pattern strings the oracle may propose.                                 *)
(***************************************************************************)
PatNone == <<"n","o","n","e">>   \* 'none'

PatEmpty == <<>>   \* ''

PatGoTest == <<"B","a","s","h","(","g","o"," ","t","e","s","t",":","*",")">>   \* 'Bash(go test:*)'

PatGitStatus == <<"B","a","s","h","(","g","i","t"," ","s","t","a","t","u","s",":","*",")">>   \* 'Bash(git status:*)'

PatGitAny == <<"B","a","s","h","(","g","i","t",":","*",")">>   \* 'Bash(git:*)'

PatMkdirExact == <<"B","a","s","h","(","m","k","d","i","r"," ","o","u","t",")">>   \* 'Bash(mkdir out)'
(***************************************************************************)
(* JSON values, as far as the hook looks at them.  A value is a record     *)
(* [ty, s]: a string carries its characters, true is the boolean with a    *)
(* non-empty s, false and null carry the empty s, so that Python's         *)
(* truthiness is `s is not empty`.                                         *)
(***************************************************************************)
JStr(s) == [ty |-> "str", s |-> s]

JTrue == [ty |-> "bool", s |-> <<"1">>]

JFalse == [ty |-> "bool", s |-> <<>>]

JNull == [ty |-> "null", s |-> <<>>]

\* Python truthiness of a JSON value (`if pattern`, `if safe`)
Truthy(v) == v.s # <<>>

\* a JSON object: a function from its keys to JSON values
EmptyObj == [k \in {} |-> JNull]

\* dict.get(key, default)
Get(obj, key, default) == IF key \in DOMAIN obj THEN obj[key] ELSE default

(***************************************************************************)
(* The oracle's free-form answer text, as a sequence of tokens: an opening *)
(* brace, a closing brace, a "key": value member, or other text.           *)
(***************************************************************************)
LB == [t |-> "{", k |-> "", v |-> JNull]

RB == [t |-> "}", k |-> "", v |-> JNull]

TXT == [t |-> "text", k |-> "", v |-> JNull]

Member(k, v) == [t |-> "member", k |-> k, v |-> v]

\* str.find: 0-based index of the first occurrence, -1 when there is none
Find(text, t) ==
  IF \E i \in DOMAIN text : text[i].t = t
  THEN (CHOOSE i \in DOMAIN text :
          text[i].t = t /\ \A j \in 1..(i - 1) : text[j].t # t) - 1
  ELSE -1

\* str.rfind: 0-based index of the last occurrence, -1 when there is none
RFind(text, t) ==
  IF \E i \in DOMAIN text : text[i].t = t
  THEN (CHOOSE i \in DOMAIN text :
          text[i].t = t /\ \A j \in (i + 1)..Len(text) : text[j].t # t) - 1
  ELSE -1

\* json.loads accepts the span iff it is one object: { members }
IsJsonObject(span) ==
  /\ Len(span) >= 2
  /\ span[1].t = "{"
  /\ span[Len(span)].t = "}"
  /\ \A i \in 2..(Len(span) - 1) : span[i].t = "member"

\* the object json.loads builds from { members }: the last member of a key wins
ObjectOf(span) ==
  LET keys == {span[i].k : i \in 2..(Len(span) - 1)}
      last(k) == CHOOSE i \in 2..(Len(span) - 1) :
                   span[i].k = k /\ \A j \in (i + 1)..(Len(span) - 1) : span[j].k # k
  IN  [k \in keys |-> span[last(k)].v]

\* the extraction shared by query_ollama and get_whitelist_pattern:
\* the text from the first "{" to the last "}", parsed as JSON
ExtractJson(response_text) ==
  LET start == Find(response_text, "{")
      end   == RFind(response_text, "}") + 1
  IN  IF start # -1 /\ end > start
      THEN LET span == SubSeq(response_text, start + 1, end)
           IN  IF IsJsonObject(span)
               THEN [res |-> "object", obj |-> ObjectOf(span)]
               ELSE [res |-> "JSONDecodeError", obj |-> EmptyObj]
      ELSE [res |-> "no_span", obj |-> EmptyObj]

(***************************************************************************)
(* What one POST to the Ollama endpoint can come to.  Only URLError,       *)
(* JSONDecodeError and TimeoutError are caught by the two clients.         *)
(***************************************************************************)
\* the call fails without an answer body, or the body is not the expected JSON
Failure(kind) == [kind |-> kind, text |-> <<>>]

\* no request has been answered
NoReply == [kind |-> "none", text |-> <<>>]

\* the endpoint answers {"response": text}
Answer(text) == [kind |-> "ok", text |-> text]

\* URLError: connection refused, HTTP error status
\* TimeoutError: no answer within TIMEOUT_SECONDS
\* BodyNotJson: the HTTP body is not JSON (json.loads raises JSONDecodeError)
\* OtherError: an exception that is none of the three caught ones
\*   (http.client.RemoteDisconnected, UnicodeDecodeError of the body)
\* BodyNotObject: the body is JSON but no object, or its "response" is no
\*   string (result.get / response_text.find raise AttributeError)
CaughtFailures == {"URLError", "TimeoutError", "BodyNotJson"}

UncaughtFailures == {"OtherError", "BodyNotObject"}

ReasonText == JStr(<<"r">>)

ClassifyTexts ==
  { <<>>,
    <<TXT>>,
    <<RB, TXT, LB>>,
    <<LB, TXT, RB>>,
    <<LB, Member("safe", JFalse), RB, TXT, LB, Member("safe", JTrue), RB>>,
    <<TXT, LB, Member("safe", JTrue), Member("reason", ReasonText), RB, TXT>>,
    <<LB, Member("safe", JFalse), Member("reason", ReasonText), RB>>,
    <<LB, Member("reason", ReasonText), RB>>,
    <<LB, Member("safe", JStr(<<"f","a","l","s","e">>)), RB>> }

ClassifyReplies ==
  {Failure(k) : k \in CaughtFailures \cup UncaughtFailures}
    \cup {Answer(t) : t \in ClassifyTexts}

PatternTexts ==
  { <<TXT>>,
    <<LB, TXT, RB>>,
    <<LB, RB>>,
    <<LB, Member("pattern", JNull), RB>>,
    <<LB, Member("pattern", JStr(PatEmpty)), RB>>,
    <<TXT, LB, Member("pattern", JStr(PatNone)), RB>>,
    <<LB, Member("pattern", JStr(PatGoTest)), RB>>,
    <<LB, Member("pattern", JStr(PatGitStatus)), RB, TXT>>,
    <<LB, Member("pattern", JStr(PatGitAny)), RB>>,
    <<LB, Member("pattern", JStr(PatMkdirExact)), RB>> }

PatternReplies ==
  {Failure(k) : k \in CaughtFailures \cup UncaughtFailures}
    \cup {Answer(t) : t \in PatternTexts}

\* query_ollama answering "safe" when the call fails
query_ollama_FailOpen(reply) ==
  IF reply.kind \in UncaughtFailures
  THEN [ret |-> "raise", obj |-> EmptyObj]
  ELSE LET x == ExtractJson(reply.text)
       IN  IF reply.kind = "ok" /\ x.res = "object"
           THEN [ret |-> "dict", obj |-> x.obj]
           ELSE [ret |-> "dict", obj |-> [k \in {"safe"} |-> JTrue]]

\* query_ollama: None, the parsed object, or an exception that escapes
query_ollama(reply) ==
  IF reply.kind \in UncaughtFailures
  THEN [ret |-> "raise", obj |-> EmptyObj]
  ELSE IF reply.kind \in CaughtFailures
  THEN [ret |-> "None", obj |-> EmptyObj]
  ELSE LET x == ExtractJson(reply.text)
       IN  IF x.res = "object"
           THEN [ret |-> "dict", obj |-> x.obj]
           ELSE [ret |-> "None", obj |-> EmptyObj]

\* get_whitelist_pattern: None, the proposed pattern, or an exception that escapes
get_whitelist_pattern(reply) ==
  IF reply.kind \in UncaughtFailures
  THEN [ret |-> "raise", pattern |-> JNull]
  ELSE IF reply.kind \in CaughtFailures
  THEN [ret |-> "None", pattern |-> JNull]
  ELSE LET x == ExtractJson(reply.text)
           pattern == Get(x.obj, "pattern", JStr(PatNone))
       IN  IF x.res = "object" /\ Truthy(pattern) /\ pattern # JStr(PatNone)
           THEN [ret |-> "pattern", pattern |-> pattern]
           ELSE [ret |-> "None", pattern |-> JNull]

(***************************************************************************)
(* The test harness's two procedures: the rule checks first, the oracle    *)
(* for what the rules leave open.  The result is a JSON value, None        *)
(* (JNull), or an exception that escapes.                                  *)
(***************************************************************************)
JRaise == [ty |-> "raise", s |-> <<>>]

test_safe_to_run(command, reply) ==
  IF check_unsafe_command(command) THEN JFalse
  ELSE IF check_safe_command(command) THEN JTrue
  ELSE LET result == query_ollama(reply)
       IN  IF result.ret = "raise" THEN JRaise
           ELSE IF result.ret = "dict" /\ DOMAIN result.obj # {}
           THEN Get(result.obj, "safe", JFalse)
           ELSE JNull

test_whitelist_pattern(command, reply) ==
  IF check_unsafe_command(command) THEN JStr(PatNone)
  ELSE IF check_never_whitelist(command) THEN JStr(PatNone)
  ELSE LET result == query_ollama(reply)
       IN  IF result.ret = "raise" THEN JRaise
           ELSE IF result.ret = "dict" /\ DOMAIN result.obj # {}
           THEN Get(result.obj, "pattern", JStr(PatNone))
           ELSE JNull

(***************************************************************************)
(* The settings files.  A file is missing, holds bytes that are no UTF-8   *)
(* text, holds text that is no JSON, holds JSON that is no object, or      *)
(* holds a settings object; of an object the model keeps the names of its  *)
(* other top-level fields, what "permissions" is, the names of the other   *)
(* fields under it, and what "allow" is.                                   *)
(***************************************************************************)
NoDoc(kind) ==
  [kind |-> kind, top |-> {}, permsKind |-> "absent", permOther |-> {},
   allowKind |-> "absent", allowList |-> <<>>, allowStr |-> <<>>]

Doc(top, permsKind, permOther, allowKind, allowList, allowStr) ==
  [kind |-> "object", top |-> top, permsKind |-> permsKind,
   permOther |-> permOther, allowKind |-> allowKind,
   allowList |-> allowList, allowStr |-> allowStr]

Missing == NoDoc("missing")

BadUtf8 == NoDoc("badutf8")

BadJson == NoDoc("badjson")

NonObject == NoDoc("nonobject")

\* {}
EmptyDoc == Doc({}, "absent", {}, "absent", <<>>, <<>>)

\* {"env": .., "permissions": {"deny": [..]}}
DocNoAllow == Doc({"env"}, "object", {"deny"}, "absent", <<>>, <<>>)

\* {"permissions": "x"}
DocPermsNoObject == Doc({}, "nonobject", {}, "absent", <<>>, <<>>)

\* {"model": .., "permissions": {"allow": ["Bash(git status:*)"], "deny": [..]}}
DocOneAllow ==
  Doc({"model"}, "object", {"deny"}, "list", <<JStr(PatGitStatus)>>, <<>>)

\* {"permissions": {"allow": null}}
DocAllowNull == Doc({}, "object", {}, "null", <<>>, <<>>)

\* {"permissions": {"allow": "Bash(go test:*)"}}
DocAllowStr == Doc({}, "object", {}, "str", <<>>, PatGoTest)

\* {"permissions": {"allow": ["Bash(go test:*)", "Bash(go test:*)"]}}, edited by hand
DocDupAllow ==
  Doc({}, "object", {}, "list", <<JStr(PatGoTest), JStr(PatGoTest)>>, <<>>)

FileContents ==
  {Missing, BadUtf8, BadJson, NonObject, EmptyDoc, DocNoAllow,
   DocPermsNoObject, DocOneAllow, DocAllowNull, DocAllowStr, DocDupAllow}

\* get_settings_path: the project file if it exists, else the global one
get_settings_path(fs) ==
  IF fs["project"].kind # "missing" THEN "project" ELSE "global"

\* add_to_whitelist, the read: the parsed document, {} for a missing file or
\* a JSONDecodeError, or an exception that escapes (UnicodeDecodeError)
LoadSettings(file) ==
  IF file.kind = "badutf8" THEN [res |-> "raise", settings |-> EmptyDoc]
  ELSE IF file.kind \in {"missing", "badjson"}
  THEN [res |-> "ok", settings |-> EmptyDoc]
  ELSE [res |-> "ok", settings |-> file]

\* `pattern not in allow_list` for a list
InList(pattern, allowList) ==
  \E i \in DOMAIN allowList : allowList[i] = pattern

\* MergePattern writing a fresh document that holds only the new pattern
MergePattern_FreshDoc(settings, pattern) ==
  IF settings.kind # "object" \/ settings.permsKind = "nonobject"
     \/ settings.allowKind \in {"null", "str"}
  THEN [res |-> "raise", settings |-> settings]
  ELSE IF InList(pattern, settings.allowList)
  THEN [res |-> "nochange", settings |-> settings]
  ELSE [res |-> "write",
        settings |-> Doc({}, "object", {}, "list", <<pattern>>, <<>>)]

\* MergePattern putting the new pattern in front of the list
MergePattern_Prepend(settings, pattern) ==
  IF settings.kind # "object" \/ settings.permsKind = "nonobject"
     \/ settings.allowKind \in {"null", "str"}
  THEN [res |-> "raise", settings |-> settings]
  ELSE IF InList(pattern, settings.allowList)
  THEN [res |-> "nochange", settings |-> settings]
  ELSE [res |-> "write",
        settings |-> [settings EXCEPT !.permsKind = "object",
                                      !.allowKind = "list",
                                      !.allowList = <<pattern>> \o @]]

\* MergePattern appending without the membership test
MergePattern_AlwaysAppend(settings, pattern) ==
  IF settings.kind # "object" \/ settings.permsKind = "nonobject"
     \/ settings.allowKind \in {"null", "str"}
  THEN [res |-> "raise", settings |-> settings]
  ELSE [res |-> "write",
        settings |-> [settings EXCEPT !.permsKind = "object",
                                      !.allowKind = "list",
                                      !.allowList = Append(@, pattern)]]

\* add_to_whitelist, the merge: setdefault("permissions", {}),
\* setdefault("allow", []), and the append when the pattern is not present.
\* "write": the document to write back; "nochange": the pattern is present;
\* "raise": AttributeError or TypeError on a value of the wrong type
MergePattern(settings, pattern) ==
  IF settings.kind # "object" \/ settings.permsKind = "nonobject"
  THEN [res |-> "raise", settings |-> settings]
  ELSE IF settings.allowKind = "null"
  THEN [res |-> "raise", settings |-> settings]
  ELSE IF settings.allowKind = "str"
  THEN IF pattern.ty = "str" /\ Contains(settings.allowStr, pattern.s)
       THEN [res |-> "nochange", settings |-> settings]
       ELSE [res |-> "raise", settings |-> settings]
  ELSE LET allow_list == settings.allowList
       IN  IF InList(pattern, allow_list)
           THEN [res |-> "nochange",
                 settings |-> [settings EXCEPT !.permsKind = "object",
                                               !.allowKind = "list"]]
           ELSE [res |-> "write",
                 settings |-> [settings EXCEPT !.permsKind = "object",
                                               !.allowKind = "list",
                                               !.allowList = Append(allow_list, pattern)]]

(***************************************************************************)
(* The permission pattern syntax the prompt describes: a pattern ending   *)
(* in colon-star is a prefix match of its base, any other an exact match.  *)
(***************************************************************************)
BashOpen == <<"B","a","s","h","(">>

IsPrefix(a, s) == Len(a) <= Len(s) /\ SubSeq(s, 1, Len(a)) = a

PatternMatches(pattern, command) ==
  /\ pattern.ty = "str"
  /\ Len(pattern.s) > Len(BashOpen)
  /\ IsPrefix(BashOpen, pattern.s)
  /\ pattern.s[Len(pattern.s)] = ")"
  /\ LET inner == SubSeq(pattern.s, Len(BashOpen) + 1, Len(pattern.s) - 1)
         n == Len(inner)
     IN  IF n >= 2 /\ SubSeq(inner, n - 1, n) = <<":", "*">>
         THEN IsPrefix(SubSeq(inner, 1, n - 2), command)
         ELSE inner = command

(***************************************************************************)
(* The structural extractor: the prefix pattern of a command's first word, *)
(* or of its first two words when the first is a registered tool.          *)
(***************************************************************************)
\* the white space str.strip and str.split act on
Whitespace == {" ", "\t", "\n"}

\* length of the longest prefix of s without white space
RECURSIVE WordLen(_)
WordLen(s) ==
  IF s = <<>> \/ Head(s) \in Whitespace THEN 0 ELSE 1 + WordLen(Tail(s))

\* str.strip(): white space removed at both ends
RECURSIVE Strip(_)
Strip(s) ==
  IF s = <<>> THEN s
  ELSE IF Head(s) \in Whitespace THEN Strip(Tail(s))
  ELSE IF s[Len(s)] \in Whitespace THEN Strip(SubSeq(s, 1, Len(s) - 1))
  ELSE s

\* str.split(): the maximal runs without white space, in order
RECURSIVE Split(_)
Split(s) ==
  IF s = <<>> THEN <<>>
  ELSE IF Head(s) \in Whitespace THEN Split(Tail(s))
  ELSE <<SubSeq(s, 1, WordLen(s))>> \o Split(SubSeq(s, WordLen(s) + 1, Len(s)))

PrefixPattern(base) == BashOpen \o base \o <<":", "*", ")">>

\* extract_permission_pattern taking the first word only
extract_permission_pattern_FirstWord(command) ==
  LET parts == Split(Strip(command))
  IN  IF parts = <<>> THEN PrefixPattern(command)
      ELSE PrefixPattern(parts[1])

extract_permission_pattern(command) ==
  LET parts == Split(Strip(command))
  IN  IF parts = <<>> THEN PrefixPattern(command)
      ELSE IF Len(parts) >= 2 /\ parts[1] \in MULTI_WORD_TOOLS
      THEN PrefixPattern(parts[1] \o <<" ">> \o parts[2])
      ELSE PrefixPattern(parts[1])

(***************************************************************************)
(* The orchestrator's pure decisions.                                      *)
(***************************************************************************)
\* ToolClassShortcut without the always-ask set
ToolClassShortcut_SafeOnly(tool_name) ==
  tool_name \in ALWAYS_SAFE_TOOLS

\* main: always-safe and always-ask tools exit at once
ToolClassShortcut(tool_name) ==
  tool_name \in ALWAYS_SAFE_TOOLS \/ tool_name \in ALWAYS_ASK_TOOLS

\* RuleCheck with the known-safe check made before the unsafe check
RuleCheck_SafeFirst(tool_name, command) ==
  IF tool_name # "Bash" THEN "oracle"
  ELSE IF check_safe_command(command) THEN "safe"
  ELSE IF check_unsafe_command(command) THEN "defer"
  ELSE "oracle"

\* RuleCheck without the unsafe check
RuleCheck_NoUnsafe(tool_name, command) ==
  IF tool_name # "Bash" THEN "oracle"
  ELSE IF check_safe_command(command) THEN "safe"
  ELSE "oracle"

\* main, the code-based safety net for Bash: "defer" (exit without output),
\* "safe" (known safe command), or "oracle" (fall through to the LLM)
RuleCheck(tool_name, command) ==
  IF tool_name # "Bash" THEN "oracle"
  ELSE IF check_unsafe_command(command) THEN "defer"
  ELSE IF check_safe_command(command) THEN "safe"
  ELSE "oracle"

\* WhitelistEligible without the never-whitelist guard
WhitelistEligible_NoNever(command) ==
  ~check_unsafe_command(command)

\* add_to_whitelist, the guards before any pattern is asked for
WhitelistEligible(command) ==
  ~check_never_whitelist(command) /\ ~check_unsafe_command(command)

\* OracleWhitelists without the test of the tool name
OracleWhitelists_AnyTool(safe, tool_name, command) ==
  Truthy(safe) /\ command # <<>>

\* main: add_to_whitelist is called on the oracle path only for a truthy
\* "safe", the Bash tool and a non-empty command
OracleWhitelists(safe, tool_name, command) ==
  Truthy(safe) /\ tool_name = "Bash" /\ command # <<>>

\* the reasons main attaches to a decision
RuleReason == [by |-> "Code safety check", detail |-> JStr(<<>>)]

LlmReason(reason) == [by |-> "LLM assessment", detail |-> reason]

DefaultReason == JStr(<<"L","L","M">>)

\* make_decision followed by main's `if decision: print(...)`:
\* the objects written to stdout
make_decision(safe, reason) ==
  IF Truthy(safe)
  THEN << [permissionDecision |-> "allow", permissionDecisionReason |-> reason] >>
  ELSE << >>
(***************************************************************************)
(* The state.                                                              *)
(***************************************************************************)
\* number of hook processes that may be in flight at once
NProcs == 2

Procs == 1..NProcs

\* a hook runs to its end before the next one starts: one slot is in use
SeqProcs == {1}

VARIABLES
  files,   \* the two settings files, "project" and "global"
  runs,    \* the number of runs of main started so far
  run      \* per process: main's position and local variables, its
           \* stdout, exit status, the oracle requests it sent and the
           \* answers it got, the settings file content it read, the number
           \* of settings writes and of add_to_whitelist calls it made

vars == <<files, runs, run>>

\* the tool invocations on stdin
GenericTools == {"Write", "mcp__db__query", ""}

Inputs ==
  {[stdin |-> k, tool_name |-> "", command |-> <<>>] : k \in {"badjson", "nonobject"}}
    \cup {[stdin |-> "ok", tool_name |-> t, command |-> <<>>] :
            t \in ALWAYS_SAFE_TOOLS \cup ALWAYS_ASK_TOOLS \cup GenericTools}
    \cup {[stdin |-> "ok", tool_name |-> "Bash", command |-> c] : c \in Commands}
    \cup {[stdin |-> "ok", tool_name |-> t, command |-> CmdGitStatus] :
            t \in {"Task", "Read", "mcp__shell"}}

\* a process before main has read its input
Fresh(inp) ==
  [pc |-> "ready", stdin |-> inp.stdin, tool_name |-> inp.tool_name,
   command |-> inp.command, verdict |-> "none", safe |-> JNull,
   reason |-> RuleReason, pattern |-> JNull, settings_path |-> "global",
   settings |-> EmptyDoc, stdout |-> <<>>, exit_status |-> "running",
   requests |-> <<>>, writes |-> 0, whitelist_calls |-> 0,
   classify_reply |-> NoReply, pattern_reply |-> NoReply,
   read_file |-> NoDoc("unread")]

Idle == Fresh([stdin |-> "ok", tool_name |-> "", command |-> <<>>])

InitFiles ==
  {fs \in [{"project", "global"} -> FileContents] :
     fs["project"].kind # "missing" => fs["global"] \in {Missing, DocOneAllow}}

Init ==
  /\ files \in InitFiles
  /\ runs = 0
  /\ run = [p \in Procs |-> Idle]

(***************************************************************************)
(* How a run goes on after a step.                                         *)
(***************************************************************************)
\* sys.exit(0) without output
Exit0(r) == [r EXCEPT !.pc = "done", !.exit_status = "0"]

\* an exception nobody catches: traceback, exit status 1
Crash(r) == [r EXCEPT !.pc = "done", !.exit_status = "1"]

\* main after add_to_whitelist has returned, or was not called:
\* make_decision, print, sys.exit(0)
Decide(r) ==
  [r EXCEPT !.pc = "done", !.exit_status = "0",
            !.stdout = @ \o make_decision(r.safe, r.reason)]

\* the call of add_to_whitelist up to its first request
EnterWhitelist(r) ==
  LET r1 == [r EXCEPT !.whitelist_calls = @ + 1]
  IN  IF WhitelistEligible(r.command)
      THEN [r1 EXCEPT !.pc = "propose"]
      ELSE Decide(r1)

\* main from reading stdin to its first request, or to its exit
MainEntry(inp) ==
  LET r == Fresh(inp)
  IN  IF inp.stdin = "badjson" THEN Exit0(r)
      ELSE IF inp.stdin = "nonobject" THEN Crash(r)
      ELSE IF ToolClassShortcut(inp.tool_name) THEN Exit0(r)
      ELSE LET rule == RuleCheck(inp.tool_name, inp.command)
           IN  IF rule = "defer" THEN Exit0(r)
               ELSE IF rule = "safe"
               THEN EnterWhitelist([r EXCEPT !.verdict = "safe", !.safe = JTrue,
                                             !.reason = RuleReason])
               ELSE [r EXCEPT !.pc = "classify"]

\* AfterClassify sending the request a second time when the first gave None
AfterClassify_Retry(r, q) ==
  IF q.ret = "raise" THEN Crash(r)
  ELSE IF q.ret = "None"
  THEN IF r.requests = <<"classify">> THEN [r EXCEPT !.pc = "classify"] ELSE Exit0(r)
  ELSE LET safe == Get(q.obj, "safe", JFalse)
           reason == Get(q.obj, "reason", DefaultReason)
           r1 == [r EXCEPT !.safe = safe, !.reason = LlmReason(reason),
                           !.verdict = IF Truthy(safe) THEN "safe" ELSE "unsafe"]
       IN  IF OracleWhitelists(safe, r.tool_name, r.command)
           THEN EnterWhitelist(r1)
           ELSE Decide(r1)

\* main after query_ollama has returned
AfterClassify(r, q) ==
  IF q.ret = "raise" THEN Crash(r)
  ELSE IF q.ret = "None" THEN Exit0(r)
  ELSE LET safe == Get(q.obj, "safe", JFalse)
           reason == Get(q.obj, "reason", DefaultReason)
           r1 == [r EXCEPT !.safe = safe, !.reason = LlmReason(reason),
                           !.verdict = IF Truthy(safe) THEN "safe" ELSE "unsafe"]
       IN  IF OracleWhitelists(safe, r.tool_name, r.command)
           THEN EnterWhitelist(r1)
           ELSE Decide(r1)

\* add_to_whitelist after get_whitelist_pattern has returned
AfterPropose(r, g) ==
  IF g.ret = "raise" THEN Crash(r)
  ELSE IF g.ret = "None" THEN Decide(r)
  ELSE [r EXCEPT !.pc = "read", !.pattern = g.pattern]

\* add_to_whitelist from get_settings_path to the decision to write
AfterRead(r, file) ==
  LET l == LoadSettings(file)
      m == MergePattern(l.settings, r.pattern)
  IN  IF l.res = "raise" \/ m.res = "raise" THEN Crash(r)
      ELSE IF m.res = "nochange" THEN Decide(r)
      ELSE [r EXCEPT !.pc = "write", !.settings = m.settings]

(***************************************************************************)
(* The steps of a run.                                                     *)
(***************************************************************************)
\* a hook process is started on one tool invocation
Start(p) ==
  /\ run[p].pc \in {"ready", "done"}
  /\ runs < MaxRuns
  /\ runs' = runs + 1
  /\ \E inp \in Inputs : run' = [run EXCEPT ![p] = MainEntry(inp)]
  /\ UNCHANGED files

\* query_ollama sends the classification request and main acts on the answer
Classify(p) ==
  /\ run[p].pc = "classify"
  /\ \E reply \in ClassifyReplies :
       LET r == [run[p] EXCEPT !.requests = Append(@, "classify"),
                               !.classify_reply = reply]
       IN  run' = [run EXCEPT ![p] = AfterClassify(r, query_ollama(reply))]
  /\ UNCHANGED <<files, runs>>

\* get_whitelist_pattern sends the pattern request
Propose(p) ==
  /\ run[p].pc = "propose"
  /\ \E reply \in PatternReplies :
       LET r == [run[p] EXCEPT !.requests = Append(@, "pattern"),
                               !.pattern_reply = reply]
       IN  run' = [run EXCEPT ![p] = AfterPropose(r, get_whitelist_pattern(reply))]
  /\ UNCHANGED <<files, runs>>

\* add_to_whitelist reads the settings file and merges the pattern
ReadSettings(p) ==
  /\ run[p].pc = "read"
  /\ LET path == get_settings_path(files)
         r == [run[p] EXCEPT !.settings_path = path, !.read_file = files[path]]
     IN  run' = [run EXCEPT ![p] = AfterRead(r, files[path])]
  /\ UNCHANGED <<files, runs>>

\* add_to_whitelist writes the document back; main prints the decision
WriteSettings(p) ==
  /\ run[p].pc = "write"
  /\ files' = [files EXCEPT ![run[p].settings_path] = run[p].settings]
  /\ run' = [run EXCEPT ![p] = Decide([run[p] EXCEPT !.writes = @ + 1])]
  /\ UNCHANGED runs

Next ==
  \E p \in SeqProcs :
    \/ Start(p)
    \/ Classify(p)
    \/ Propose(p)
    \/ ReadSettings(p)
    \/ WriteSettings(p)

Spec == Init /\ [][Next]_vars

(***************************************************************************)
(* Concurrent whitelist updates.  Several hook processes, started on tool  *)
(* calls in flight at the same time, have each obtained a pattern and are  *)
(* about to read the settings file; their reads and writes interleave in   *)
(* any order, as nothing locks the file.                                   *)
(***************************************************************************)
\* a process that main and get_whitelist_pattern have brought to the read
UpdateStates ==
  {r \in {AfterPropose([MainEntry([stdin |-> "ok", tool_name |-> "Bash",
                                   command |-> CmdGitStatus])
                          EXCEPT !.requests = Append(@, "pattern"),
                                 !.pattern_reply = reply],
                        get_whitelist_pattern(reply)) : reply \in PatternReplies} :
     r.pc = "read"}

InitConc ==
  /\ files \in InitFiles
  /\ runs = NProcs
  /\ run \in [Procs -> UpdateStates]

NextConc ==
  \E p \in Procs :
    \/ ReadSettings(p)
    \/ WriteSettings(p)

SpecConc == InitConc /\ [][NextConc]_vars

(***************************************************************************)
(* The structural extractor applied to commands put together from words    *)
(* and white space.                                                        *)
(***************************************************************************)
ExtractAtoms ==
  {<<"g","i","t">>, <<"l","s">>, <<"s","t","a","t","u","s">>, <<" ">>, <<"\t">>}

\* the texts of at most n pieces
RECURSIVE Texts(_)
Texts(n) ==
  IF n = 0 THEN {<<>>}
  ELSE Texts(n - 1) \cup {t \o a : t \in Texts(n - 1), a \in ExtractAtoms}

ExtractInputs == Texts(MaxParts)

InitExtract ==
  /\ files = [f \in {"project", "global"} |-> Missing]
  /\ runs = 0
  /\ \E command \in ExtractInputs :
       run = [p \in Procs |->
                IF p \in SeqProcs
                THEN [Idle EXCEPT !.pc = "extract", !.command = command]
                ELSE Idle]

\* a caller applies extract_permission_pattern to its command
Extract(p) ==
  /\ run[p].pc = "extract"
  /\ run' = [run EXCEPT ![p].pc = "extracted",
                        ![p].pattern = JStr(extract_permission_pattern(run[p].command))]
  /\ UNCHANGED <<files, runs>>

NextExtract == \E p \in SeqProcs : Extract(p)

SpecExtract == InitExtract /\ [][NextExtract]_vars

(***************************************************************************)
(* Properties.                                                             *)
(***************************************************************************)
\* a run of main on a well-formed Bash invocation
IsBashRun(r) == r.pc # "ready" /\ r.stdin = "ok" /\ r.tool_name = "Bash"

\* the run has ended by sys.exit(0)
Exited0(r) == r.pc = "done" /\ r.exit_status = "0"

\* the run has not touched the settings store
StoreUntouched(r) == r.writes = 0 /\ r.read_file.kind = "unread"

\* C1 (deny-wins): a Bash run whose command matches both an unsafe marker and
\* a known-safe marker ends at once, renders no safe verdict and emits nothing.
C1_DenyWins ==
  \A p \in Procs :
    ( /\ IsBashRun(run[p])
      /\ check_unsafe_command(run[p].command)
      /\ check_safe_command(run[p].command) )
    => /\ run[p].stdout = <<>>
       /\ run[p].verdict # "safe"
       /\ Exited0(run[p])

C1_Witness ==
  \E p \in Procs :
    /\ IsBashRun(run[p])
    /\ run[p].command = CmdCatEnv
    /\ check_safe_command(run[p].command)
    /\ run[p].pc = "done"

\* C2 (no oracle on deterministic unsafe): a Bash run whose command matches an
\* unsafe marker sends no classification request and no pattern request, and
\* no step of it changes a settings file.
C2_NoOracleOnUnsafe ==
  /\ [](\A p \in Procs :
          (IsBashRun(run[p]) /\ check_unsafe_command(run[p].command))
          => run[p].requests = <<>> /\ StoreUntouched(run[p]))
  /\ [][\A p \in Procs :
          (IsBashRun(run'[p]) /\ check_unsafe_command(run'[p].command))
          => files' = files]_vars

C2_Witness ==
  \E p \in Procs :
    /\ IsBashRun(run[p])
    /\ run[p].command = CmdPushForce
    /\ Exited0(run[p])

\* C3 (whitelist never widens to danger): add_to_whitelist on a command that
\* matches a never-whitelist marker or an unsafe marker returns at once: it
\* sends no pattern request and neither reads nor writes a settings file,
\* on the rule path and on the oracle path.
\* add_to_whitelist called on each command of the model that matches a
\* never-whitelist or an unsafe marker returns without a request
WhitelistRefusesDanger ==
  \A c \in Commands :
    (check_never_whitelist(c) \/ check_unsafe_command(c))
    => LET r0 == Fresh([stdin |-> "ok", tool_name |-> "Bash", command |-> c])
           r1 == EnterWhitelist(r0)
       IN  /\ r1.pc = "done"
           /\ r1.requests = r0.requests
           /\ r1.whitelist_calls = 1

C3_NeverWidens ==
  /\ WhitelistRefusesDanger
  /\ \A p \in Procs :
       ( /\ run[p].whitelist_calls > 0
         /\ \/ check_never_whitelist(run[p].command)
            \/ check_unsafe_command(run[p].command) )
       => /\ run[p].requests \in {<<>>, <<"classify">>}
          /\ StoreUntouched(run[p])
          /\ run[p].pattern = JNull
          /\ run[p].pc = "done"

C3_Witness ==
  \E p \in Procs :
    /\ run[p].command = CmdPush
    /\ check_never_whitelist(run[p].command)
    /\ run[p].whitelist_calls = 1
    /\ run[p].requests = <<"classify">>
    /\ Len(run[p].stdout) = 1

\* the classification call failed: timeout, transport failure, a body that
\* is not the expected JSON, or an answer text holding no JSON object
ClassifyFailed(r) ==
  \/ r.classify_reply.kind \in CaughtFailures \cup UncaughtFailures
  \/ /\ r.classify_reply.kind = "ok"
     /\ ExtractJson(r.classify_reply.text).res # "object"

\* C4 (oracle-failure fail-safe): a run whose classification call failed
\* renders no safe verdict, emits nothing, asks for no pattern and does not
\* touch the settings store.
C4_OracleFailSafe ==
  \A p \in Procs :
    ClassifyFailed(run[p])
    => /\ run[p].stdout = <<>>
       /\ run[p].verdict # "safe"
       /\ run[p].requests = <<"classify">>
       /\ StoreUntouched(run[p])
       /\ run[p].pc = "done"

C4_Witness ==
  \E p \in Procs :
    /\ run[p].classify_reply = Answer(<<LB, TXT, RB>>)
    /\ run[p].tool_name = "Bash"
    /\ Exited0(run[p])

\* C5 (pattern scope): a pattern the gate has written to a settings file
\* matches no command that the rule engine flags unsafe or never-whitelistable.
C5_PatternScope ==
  \A p \in Procs :
    run[p].writes > 0
    => \A c \in Commands :
         PatternMatches(run[p].pattern, c)
         => ~check_unsafe_command(c) /\ ~check_never_whitelist(c)

\* the allow list of a settings file, empty when it holds none
AllowOf(file) ==
  IF file.kind = "object" /\ file.allowKind = "list" THEN file.allowList ELSE <<>>

NoDuplicates(list) ==
  \A i, j \in DOMAIN list : list[i] = list[j] => i = j

\* C6 (idempotent insert): an update whose pattern is already in the allow
\* list of the settings file ends without a write and leaves every file as
\* it is; an update that ends normally leaves its pattern in the allow list
\* (or found allow to be a string holding it), so that the next update with
\* the same pattern is of the first kind; and no step turns a
\* duplicate-free allow list into one with a duplicate.
C6_IdempotentInsert ==
  [][ /\ \A p \in Procs :
           ( /\ run[p].pc = "read"
             /\ run'[p] # run[p]
             /\ InList(run[p].pattern, AllowOf(files[get_settings_path(files)])) )
           => /\ files' = files
              /\ run'[p].writes = run[p].writes
              /\ run'[p].pc = "done"
      /\ \A p \in Procs :
           ( /\ run[p].pc \in {"read", "write"}
             /\ Exited0(run'[p]) )
           => LET file == files'[run'[p].settings_path]
              IN  \/ InList(run'[p].pattern, AllowOf(file))
                  \/ file.allowKind = "str"
      /\ \A f \in DOMAIN files :
           NoDuplicates(AllowOf(files[f])) => NoDuplicates(AllowOf(files'[f])) ]_vars

C6_Witness ==
  \E p \in Procs :
    /\ runs = 2
    /\ files["global"] = Doc({}, "object", {}, "list", <<JStr(PatGoTest)>>, <<>>)
    /\ run[p].pattern = JStr(PatGoTest)
    /\ run[p].read_file = files["global"]
    /\ run[p].writes = 0
    /\ Exited0(run[p])

\* C7 (response contract): a finished run has written at most one object,
\* every object is an allow decision, and it has written one exactly when
\* its rendered verdict is safe.
C7_ResponseContract ==
  \A p \in Procs :
    run[p].pc = "done"
    => /\ Len(run[p].stdout) <= 1
       /\ \A i \in DOMAIN run[p].stdout :
            run[p].stdout[i].permissionDecision = "allow"
       /\ (Len(run[p].stdout) = 1 <=> run[p].verdict = "safe")

\* C8 (known-safe rule path): a finished Bash run whose command matches a
\* known-safe marker and no unsafe marker has called add_to_whitelist, has
\* sent no classification request, and has emitted the rule-tagged allow.
C8_KnownSafeRulePath ==
  \A p \in Procs :
    ( /\ IsBashRun(run[p])
      /\ run[p].pc = "done"
      /\ check_safe_command(run[p].command)
      /\ ~check_unsafe_command(run[p].command) )
    => /\ run[p].whitelist_calls = 1
       /\ \A i \in DOMAIN run[p].requests : run[p].requests[i] # "classify"
       /\ run[p].stdout = make_decision(JTrue, RuleReason)

\* C9 (tool-class shortcut): a run on an always-safe or always-ask tool ends
\* by exit 0 with no output, no verdict, no oracle request, no call of
\* add_to_whitelist and no access to the settings store; requests, verdicts
\* and whitelist calls occur only for tools in neither set.
C9_ToolClassShortcut ==
  \A p \in Procs :
    LET r == run[p]
        shortcut == r.tool_name \in ALWAYS_SAFE_TOOLS \cup ALWAYS_ASK_TOOLS
    IN  /\ (r.pc # "ready" /\ r.stdin = "ok" /\ shortcut)
           => /\ Exited0(r)
              /\ r.stdout = <<>>
              /\ r.requests = <<>>
              /\ StoreUntouched(r)
        /\ (r.requests # <<>> \/ r.whitelist_calls > 0 \/ r.verdict # "none")
           => ~shortcut

C9_Witness ==
  \E p \in Procs :
    /\ run[p].tool_name = "Task"
    /\ run[p].command = CmdGitStatus
    /\ Exited0(run[p])

\* C10 (malformed-settings recovery): an update that found the settings file
\* missing or malformed ends without a crash, and the file then holds a
\* fresh document whose allow list is exactly the update's pattern.
C10_MalformedRecovery ==
  \A p \in Procs :
    ( /\ run[p].pc = "done"
      /\ run[p].read_file.kind \in {"missing", "badjson", "badutf8", "nonobject"} )
    => /\ run[p].exit_status = "0"
       /\ files[run[p].settings_path]
            = Doc({}, "object", {}, "list", <<run[p].pattern>>, <<>>)

\* a settings document add_to_whitelist can merge into: an object whose
\* "permissions" is absent or an object and whose "allow" is absent or a list
WellFormed(file) ==
  /\ file.kind = "object"
  /\ file.permsKind \in {"absent", "object"}
  /\ file.allowKind \in {"absent", "list"}

\* C11 (append-only frame): a step that changes a well-formed settings file
\* is the write of one update; it keeps the other top-level fields and the
\* other fields under permissions, and the new allow list is the old one
\* with the update's pattern appended at the end.
C11_AppendOnlyFrame ==
  [][ \A f \in DOMAIN files :
        (WellFormed(files[f]) /\ files'[f] # files[f])
        => /\ \E p \in Procs :
                /\ run[p].pc = "write"
                /\ run'[p].writes = run[p].writes + 1
                /\ run[p].settings_path = f
                /\ files'[f].allowList = Append(AllowOf(files[f]), run[p].pattern)
           /\ WellFormed(files'[f])
           /\ files'[f].top = files[f].top
           /\ files'[f].permOther = files[f].permOther ]_vars

C11_Witness ==
  \E p \in Procs :
    /\ run[p].read_file = DocOneAllow
    /\ run[p].writes = 1
    /\ files[run[p].settings_path]
         = Doc({"model"}, "object", {"deny"}, "list",
               <<JStr(PatGitStatus), JStr(PatGoTest)>>, <<>>)

\* C12 (lost update): the write of an update stores the document the update
\* read with its own pattern appended, whatever the file holds by then; if
\* the file still is what the update read (the updates ran one after the
\* other) every entry of the file is kept, otherwise entries written in
\* between are lost.
C12_BlindWrite ==
  [][ \A p \in Procs :
        (run[p].pc = "write" /\ run'[p].pc = "done")
        => LET f == run[p].settings_path
               loaded == LoadSettings(run[p].read_file).settings
           IN  /\ AllowOf(files'[f]) = Append(AllowOf(loaded), run[p].pattern)
               /\ files[f] = run[p].read_file
                  => \A i \in DOMAIN AllowOf(files[f]) :
                       InList(AllowOf(files[f])[i], AllowOf(files'[f])) ]_vars

\* two updates read the same file, both wrote, and one pattern is lost
C12_Witness ==
  \E p, q \in Procs :
    /\ p # q
    /\ Exited0(run[p]) /\ Exited0(run[q])
    /\ run[p].writes = 1 /\ run[q].writes = 1
    /\ run[p].read_file = run[q].read_file
    /\ run[p].settings_path = run[q].settings_path
    /\ run[p].pattern # run[q].pattern
    /\ InList(run[q].pattern, AllowOf(files[run[q].settings_path]))
    /\ ~InList(run[p].pattern, AllowOf(files[run[p].settings_path]))

\* C13 (exit status): every run that has ended has exit status 0, and a run
\* whose input document is not JSON has printed nothing, made no request
\* and touched no file.
C13_ExitStatus ==
  \A p \in Procs :
    run[p].pc = "done"
    => /\ run[p].exit_status = "0"
       /\ run[p].stdin = "badjson"
          => /\ run[p].stdout = <<>>
             /\ run[p].requests = <<>>
             /\ StoreUntouched(run[p])

\* C14 (installation commands): for a run on "npm install", "npm install
\* lodash" or "pip install requests" the rule checks followed by the oracle
\* give safe-to-run = true, whatever the oracle says, and the whitelist
\* pattern none.
C14_InstallSafeToRun ==
  \A p \in Procs :
    ( /\ IsBashRun(run[p])
      /\ run[p].command \in {CmdNpmInstall, CmdNpmInstallLodash, CmdPipInstall} )
    => /\ \A reply \in ClassifyReplies :
            test_safe_to_run(run[p].command, reply) = JTrue
       /\ \A reply \in PatternReplies :
            test_whitelist_pattern(run[p].command, reply) = JStr(PatNone)

\* C15 (go test): a finished Bash run on "go test ./..." has emitted allow,
\* and a pattern it has written to the settings file is the prefix pattern
\* of "go test".
C15_GoTestPattern ==
  \A p \in Procs :
    ( /\ IsBashRun(run[p])
      /\ run[p].command = CmdGoTest
      /\ run[p].pc = "done" )
    => /\ run[p].stdout = make_decision(JTrue, RuleReason)
       /\ run[p].writes > 0
          => run[p].pattern = JStr(extract_permission_pattern(CmdGoTest))

\* C16 (store frame): a run has asked for a pattern or read or written the
\* settings file only if its tool is Bash, its command is not empty and its
\* verdict is safe; a finished run of another tool with a safe verdict has
\* emitted allow after its one classification request.
C16_StoreOnlyForSafeBash ==
  \A p \in Procs :
    /\ ( \/ ~StoreUntouched(run[p])
         \/ run[p].whitelist_calls > 0
         \/ \E i \in DOMAIN run[p].requests : run[p].requests[i] = "pattern" )
       => /\ run[p].tool_name = "Bash"
          /\ run[p].command # <<>>
          /\ run[p].verdict = "safe"
    /\ ( /\ run[p].pc = "done"
         /\ run[p].stdin = "ok"
         /\ run[p].tool_name # "Bash"
         /\ run[p].verdict = "safe" )
       => /\ run[p].stdout = make_decision(JTrue, run[p].reason)
          /\ run[p].requests = <<"classify">>
          /\ Exited0(run[p])

\* a shell-like tool of another name, judged safe by the oracle
C16_Witness ==
  \E p \in Procs :
    /\ run[p].tool_name = "mcp__shell"
    /\ run[p].command = CmdGitStatus
    /\ run[p].verdict = "safe"
    /\ run[p].pc = "done"
    /\ run[p].stdout # <<>>

\* the pattern request of the run failed in transport or by timeout, or its
\* answer carries no pattern: unparsable text, no "pattern" field, an empty
\* one, or the literal "none"
NoPatternAnswer(r) ==
  \/ r.pattern_reply.kind \in {"URLError", "TimeoutError", "OtherError", "BodyNotJson"}
  \/ /\ r.pattern_reply.kind = "ok"
     /\ LET x == ExtractJson(r.pattern_reply.text)
        IN  \/ x.res # "object"
            \/ "pattern" \notin DOMAIN x.obj
            \/ x.obj["pattern"] \in {JStr(<<>>), JStr(PatNone)}

\* C17 (no pattern): a run whose pattern request gave no pattern has ended
\* without touching the settings store and has emitted its safe verdict as
\* allow.
C17_NoPatternStillAllows ==
  \A p \in Procs :
    NoPatternAnswer(run[p])
    => /\ run[p].pc = "done"
       /\ StoreUntouched(run[p])
       /\ run[p].stdout = make_decision(JTrue, run[p].reason)

\* C18 (strict decoding): a run on the oracle path that has emitted a
\* decision or entered the whitelist update got an object whose "safe" is
\* the boolean true.
C18_StrictSafe ==
  \A p \in Procs :
    ( /\ run[p].classify_reply # NoReply
      /\ \/ run[p].stdout # <<>>
         \/ run[p].whitelist_calls > 0
         \/ ~StoreUntouched(run[p]) )
    => /\ run[p].classify_reply.kind = "ok"
       /\ LET x == ExtractJson(run[p].classify_reply.text)
          IN  x.res = "object" /\ Get(x.obj, "safe", JNull) = JTrue

\* the pattern request of the run failed or gave no usable answer
ProposeFailed(r) ==
  \/ r.pattern_reply.kind \in CaughtFailures \cup UncaughtFailures
  \/ /\ r.pattern_reply.kind = "ok"
     /\ ExtractJson(r.pattern_reply.text).res # "object"

\* C19 (single attempt, ordered): a run sends each of the two requests at
\* most once, the classification first; a pattern request after a
\* classification request follows an answer with a safe verdict, a pattern
\* request alone is on the rule path, and a failed request ends the
\* requests of the run.
C19_SingleAttemptOrdered ==
  \A p \in Procs :
    /\ run[p].requests \in {<<>>, <<"classify">>, <<"pattern">>,
                            <<"classify", "pattern">>}
    /\ run[p].requests = <<"classify", "pattern">>
       => /\ query_ollama(run[p].classify_reply).ret = "dict"
          /\ Truthy(Get(query_ollama(run[p].classify_reply).obj, "safe", JFalse))
          /\ run[p].verdict = "safe"
    /\ run[p].requests = <<"pattern">>
       => /\ run[p].classify_reply = NoReply
          /\ check_safe_command(run[p].command)
    /\ ClassifyFailed(run[p])
       => run[p].requests = <<"classify">> /\ run[p].pc = "done"
    /\ ProposeFailed(run[p]) => run[p].pc = "done"

\* both requests were sent, and the second failed
C19_Witness ==
  \E p \in Procs :
    /\ run[p].requests = <<"classify", "pattern">>
    /\ run[p].pattern_reply = Failure("TimeoutError")
    /\ run[p].pc = "done"

\* the pattern the extractor is said to return for a sequence of words
WordsPattern(parts) ==
  IF Len(parts) >= 2 /\ parts[1] \in MULTI_WORD_TOOLS
  THEN PrefixPattern(parts[1] \o <<" ">> \o parts[2])
  ELSE IF parts = <<>> THEN PrefixPattern(<<>>)
  ELSE PrefixPattern(parts[1])

\* C20 as stated (structural extractor, every command): the result is the
\* prefix pattern of the first two words when the first is a registered
\* tool and of the first word otherwise, and it is the result for the
\* command without its leading and trailing white space and without the
\* words after the second.
C20_ExtractorEveryCommand ==
  \A p \in Procs :
    run[p].pc = "extracted"
    => LET parts == Split(run[p].command)
       IN  /\ run[p].pattern = JStr(WordsPattern(parts))
           /\ run[p].pattern = JStr(extract_permission_pattern(Strip(run[p].command)))
           /\ Len(parts) >= 2
              => run[p].pattern
                   = JStr(extract_permission_pattern(parts[1] \o <<" ">> \o parts[2]))

\* C20 (structural extractor, amended): the above holds for every command
\* with at least one word; for a command without a word the result is the
\* command itself, white space included, wrapped as a prefix pattern.
C20_ExtractorWords ==
  \A p \in Procs :
    run[p].pc = "extracted"
    => LET parts == Split(run[p].command)
       IN  IF parts = <<>>
           THEN run[p].pattern = JStr(PrefixPattern(run[p].command))
           ELSE /\ run[p].pattern = JStr(WordsPattern(parts))
                /\ run[p].pattern
                     = JStr(extract_permission_pattern(Strip(run[p].command)))
                /\ Len(parts) >= 2
                   => run[p].pattern
                        = JStr(extract_permission_pattern(parts[1] \o <<" ">> \o parts[2]))

\* a registered tool, a subcommand, a third word and white space around
C20_Witness ==
  \E p \in Procs :
    /\ run[p].pc = "extracted"
    /\ Len(Split(run[p].command)) = 3
    /\ run[p].command # Strip(run[p].command)
    /\ run[p].pattern = JStr(PatGitStatus)

\* C21 (effective markers): the command of a Bash run that contains a marker
\* of a rule table as the table writes it is matched by the check of that
\* table.
C21_MarkersEffective ==
  \A p \in Procs :
    IsBashRun(run[p])
    => /\ \A m \in UNSAFE_COMMANDS :
            Contains(run[p].command, m) => check_unsafe_command(run[p].command)
       /\ \A m \in SAFE_COMMAND_BASES :
            Contains(run[p].command, m) => check_safe_command(run[p].command)
       /\ \A m \in NEVER_WHITELIST_COMMANDS :
            Contains(run[p].command, m) => check_never_whitelist(run[p].command)

\* every settings file is absent or a well-formed document, and no allow
\* list holds a pattern twice
StoreDuplicateFree ==
  \A f \in DOMAIN files :
    /\ files[f] = Missing \/ WellFormed(files[f])
    /\ NoDuplicates(AllowOf(files[f]))

\* C22 (no duplicates under concurrency): when the concurrent updates start
\* from settings files that are absent or well-formed without a duplicate,
\* then however their reads and writes interleave, every document an update
\* is about to write and every file content is well-formed without a
\* duplicate.
C22_NoDuplicatesConcurrent ==
  StoreDuplicateFree
  => [] ( /\ StoreDuplicateFree
          /\ \A p \in Procs :
               run[p].pc = "write"
               => /\ WellFormed(run[p].settings)
                  /\ NoDuplicates(AllowOf(run[p].settings)) )

\* two updates with the same pattern read the same file without it, and
\* both wrote
C22_Witness ==
  \E p, q \in Procs :
    /\ p # q
    /\ run[p].pattern = run[q].pattern
    /\ run[p].read_file = DocOneAllow
    /\ run[q].read_file = DocOneAllow
    /\ run[p].writes = 1 /\ run[q].writes = 1
    /\ Exited0(run[p]) /\ Exited0(run[q])
    /\ AllowOf(files[run[p].settings_path])
         = Append(AllowOf(DocOneAllow), run[p].pattern)
====
